---- MODULE Spec2Model ----
(***************************************************************************)
(* The DateScrollBar timeline selector (src/src/components/DateScrollBar   *)
(* .tsx) as a state machine.                                               *)
(*                                                                         *)
(* One action is one callback delivered on the JavaScript event loop: a    *)
(* gesture handler, a host render, a timer callback, an animation-frame    *)
(* callback.  A callback that changes React state is followed, inside the  *)
(* same action, by the re-render it causes and by the effects whose        *)
(* dependencies changed (cleanup first, then the body), which is what      *)
(* React commits before the next callback of the loop is taken.            *)
(*                                                                         *)
(* A timer callback is a closure of the render that scheduled it: a        *)
(* pending timer carries the values it captured, and its callback tests    *)
(* those, not the current state.                                           *)
(*                                                                         *)
(* Time is counted in milliseconds and advances in steps of Quantum.  A    *)
(* timer fires when its remaining time is 0; time does not advance past a  *)
(* due timer or a pending animation frame, but any event may be delivered  *)
(* before a due timer is taken.                                            *)
(*                                                                         *)
(* A Date is an integer count of day parts: DayOf(d) is its calendar day   *)
(* and d % DayParts its time of day.                                       *)
(*                                                                         *)
(* The specifications share the component's actions:                       *)
(*   Spec       the mounted component under a host that may pass any       *)
(*              selectedDate and disableAutoScroll at any time;            *)
(*   SpecMount  the mount itself, for any device date and selected date,   *)
(*              and the timers it starts;                                  *)
(*   SpecDay    Spec, with midnight passing while the component is         *)
(*              mounted;                                                   *)
(*   SpecHost   the component under MoodTrackerScreen, which derives       *)
(*              disableAutoScroll from the selection and the route         *)
(*              parameter.                                                 *)
(* SpecLive and SpecHostLive are Spec and SpecHost with weak fairness of   *)
(* time passing and of each deferred callback, for the liveness            *)
(* properties.                                                             *)
(*                                                                         *)
(* The storage (src/src/utils/storage.ts) and the state MoodTrackerScreen  *)
(* keeps around the timeline have two specifications of their own, in      *)
(* which the timeline is at rest:                                          *)
(*   SpecStore  saveMoodEntry and deleteMoodEntry under any caller, each   *)
(*              call a read of the stored list, then a write of it;        *)
(*   SpecScreen MoodTrackerScreen and its journal modal, with the loads    *)
(*              and saves their handlers start.                            *)
(* A stored date string is the calendar day it names, and the id           *)
(* mood_<timestamp> of an entry is the timestamp.  An optional value is a  *)
(* sequence: <<>> for undefined or null, <<v>> for the value v.            *)
(***************************************************************************)
EXTENDS Integers, Sequences, FiniteSets, TLC

(***************************************************************************)
(* Bounds of the model.                                                    *)
(***************************************************************************)
\* Time-of-day resolution: a calendar day has DayParts instants.
DayParts == 2
\* Grace-release timeouts (setTimeout of lines 162, 171, 194) pending at once.
MaxGrace == 2
\* requestAnimationFrame callbacks (line 189) pending at once.
MaxRaf == 1
\* Mount inputs: the device's date at mount is on calendar day -1 .. MaxAnchorDay.
MaxAnchorDay == 1
\* Lookups outside the window: up to MaxBeyond days before and after it.
MaxBeyond == 2
\* Midnights that pass while the component is mounted.
MaxMidnights == 1
\* Date.now() takes the values 1 .. MaxClock while the screen is open.
MaxClock == 2
\* Storage calls made by direct callers in a behaviour of SpecStore.
MaxApiCalls == 2
\* Storage calls made by the screen in a behaviour of SpecScreen.
MaxCalls == 4

(***************************************************************************)
(* Program constants.                                                      *)
(***************************************************************************)
DATE_ITEM_WIDTH == 80
DATE_ITEM_MARGIN == 2
WindowDays == 7
INIT_DELAY == 150
CENTER_DELAY == 50
AUTO_SCROLL_DELAY == 6000
DRAG_GRACE == 500
MOMENTUM_GRACE == 500
TAP_GRACE == 400
\* useState(5), setMoodValue(5): the rating of a date without an entry.
DefaultMood == 5

\* The step of the clock: the shortest delay of the program.
Quantum == CENTER_DELAY

VARIABLES
    mounted,            \* the component is mounted (scrollViewRef.current is set)
    today,              \* the device's date: what a render reads as `today` (line 37)
    dates,              \* dates.current (line 31)
    selectedDate,       \* prop selectedDate: the host's state
    selItem,            \* index i when selectedDate is the object dates.current[i], else -1
    disableAutoScroll,  \* prop disableAutoScroll: the host's state
    routeParam,         \* the host's route.params.selectedDate: <<date>>, or NoParam
    isScrolling,        \* state (line 32)
    isUserInteracting,  \* state (line 33)
    hasInitialized,     \* hasInitialized.current (line 35)
    autoRef,            \* autoScrollTimeoutRef.current: a timer id, 0 for null
    autoTimers,         \* pending timeouts of line 123, with their closures
    initTimers,         \* pending timeouts of line 73
    centerTimers,       \* pending timeouts of line 88
    graceTimers,        \* pending timeouts of lines 162, 171, 194
    rafQueue,           \* pending requestAnimationFrame callbacks of line 189
    surface,            \* the scroll surface: "rest", "drag" or "momentum"
    scrollCmds,         \* scrollTo commands issued by the last callback
    selectCalls,        \* onDateSelect calls made by the last callback
    hostCalls,          \* selectedDate/disableAutoScroll deliveries of the last callback
    returnCmds,         \* history: scrollTo commands to today's item issued by an
                        \* auto-return and after it, while no event has arrived
    entries,            \* AsyncStorage: the list stored under STORAGE_KEY
    clock,              \* Date.now()
    callsMade,          \* the number of storage calls made so far
    storageCalls,       \* storage calls in flight (saveMoodEntry, deleteMoodEntry,
                        \* getMoodEntryByDate), each with its caller
    existingEntry,      \* MoodTrackerScreen state (line 49): <<entry>>, <<>> for null
    moodValue,          \* MoodTrackerScreen state (line 37)
    pendingMoodValue,   \* MoodTrackerScreen state (line 48)
    isSaving,           \* MoodTrackerScreen state (line 38)
    showJournalModal,   \* MoodTrackerScreen state (line 47)
    modalOpener         \* which handler showed the journal modal: "emoji", "view", "none"

\* The storage and the state of MoodTrackerScreen around the timeline.
screenVars == <<entries, clock, callsMade, storageCalls, existingEntry, moodValue, pendingMoodValue,
                isSaving, showJournalModal, modalOpener>>

vars == <<mounted, today, dates, selectedDate, selItem, disableAutoScroll,
          routeParam, isScrolling, isUserInteracting, hasInitialized, autoRef,
          autoTimers, initTimers, centerTimers, graceTimers, rafQueue, surface,
          scrollCmds, selectCalls, hostCalls, returnCmds, screenVars>>

(***************************************************************************)
(* Dates (date-fns).                                                       *)
(***************************************************************************)
DayOf(d) == d \div DayParts

isSameDay(a, b) == DayOf(a) = DayOf(b)

addDays(d, n) == d + n * DayParts

\* The smallest element of a non-empty set of integers.
SetMin(S) == CHOOSE x \in S : \A y \in S : x <= y

\* Mutant: the lookup compares instants, not calendar days.
findIndex_SameInstant(ds, date) ==
    LET hits == {i \in 1..Len(ds) : ds[i] = date}
    IN  IF hits = {} THEN -1 ELSE SetMin(hits) - 1

\* Array.prototype.findIndex with the isSameDay test: 0-based, -1 when absent.
findIndex(ds, date) ==
    LET hits == {i \in 1..Len(ds) : isSameDay(ds[i], date)}
    IN  IF hits = {} THEN -1 ELSE SetMin(hits) - 1

\* Mutant: the loop stops one day early (i < 7).
dateArray_StopsEarly(tdy) ==
    [k \in 1..(2 * WindowDays) |-> addDays(tdy, k - WindowDays - 1)]

\* The date array built at mount: 7 days before to 7 days after today.
dateArray(tdy) ==
    [k \in 1..(2 * WindowDays + 1) |-> addDays(tdy, k - WindowDays - 1)]

\* Mutant: the item width without its margins.
itemTotalWidth_NoMargin == DATE_ITEM_WIDTH

itemTotalWidth == DATE_ITEM_WIDTH + (DATE_ITEM_MARGIN * 2)

\* Mutant: no `index >= 0` test, so a date that is not found scrolls to
\* Math.max(0, -1 * itemTotalWidth) = 0.
centerDateInScroll_NoGuard(date, animated, by) ==
    IF ~mounted \/ Len(dates) = 0
    THEN <<>>
    ELSE LET scrollX == findIndex(dates, date) * itemTotalWidth
         IN  <<[x |-> IF scrollX > 0 THEN scrollX ELSE 0,
                animated |-> animated, by |-> by]>>

\* centerDateInScroll: the scrollTo commands it issues (none or one).  `by` names
\* the caller: "init", "center", "auto" or "raf".
centerDateInScroll(date, animated, by) ==
    IF ~mounted \/ Len(dates) = 0
    THEN <<>>
    ELSE LET index == findIndex(dates, date)
         IN  IF index >= 0
             THEN LET scrollX == index * itemTotalWidth
                  IN  <<[x |-> IF scrollX > 0 THEN scrollX ELSE 0,
                         animated |-> animated, by |-> by]>>
             ELSE <<>>

(***************************************************************************)
(* Timers.                                                                 *)
(***************************************************************************)
\* Mutant: clearTimeout cancels nothing.
clearTimeout_Noop(timers, id) == timers

clearTimeout(timers, id) == {t \in timers : t.id # id}

\* setTimeout returns an id no pending timer and no reference holds.
FreshId(timers, ref) ==
    SetMin((1..(Cardinality(timers) + 2)) \ ({t.id : t \in timers} \cup {ref}))

Elapse(timers) == {[t EXCEPT !.rem = t.rem - Quantum] : t \in timers}

AllTimers == autoTimers \cup initTimers \cup centerTimers \cup graceTimers

(***************************************************************************)
(* The effects, run after a render when their dependencies changed.        *)
(***************************************************************************)
\* Mutant: the effect does not test hasInitialized.current.
InitEffect_Retries(changed, sel) ==
    IF ~changed
    THEN initTimers
    ELSE IF Len(dates) > 0
         THEN {[rem |-> INIT_DELAY, sel |-> sel]}
         ELSE {}

\* Initialization effect, deps [selectedDate].
InitEffect(changed, sel) ==
    IF ~changed
    THEN initTimers
    ELSE IF ~hasInitialized /\ Len(dates) > 0
         THEN {[rem |-> INIT_DELAY, sel |-> sel]}
         ELSE {}

\* Mutant: the effect does not wait for hasInitialized.current.
CenterEffect_BeforeInit(changed, sel, ui, scr) ==
    IF ~changed
    THEN centerTimers
    ELSE IF ~ui /\ ~scr /\ Len(dates) > 0
         THEN {[rem |-> CENTER_DELAY, sel |-> sel, ui |-> ui, scr |-> scr]}
         ELSE {}

\* Mutant: the effect has no cleanup, a scheduled timeout stays.
CenterEffect_NoCleanup(changed, sel, ui, scr) ==
    IF ~changed
    THEN centerTimers
    ELSE IF hasInitialized /\ ~ui /\ ~scr /\ Len(dates) > 0
         THEN centerTimers \cup {[rem |-> CENTER_DELAY, sel |-> sel, ui |-> ui, scr |-> scr]}
         ELSE centerTimers

\* Mutant: the effect's guard does not test isUserInteracting.
CenterEffect_IgnoresInteracting(changed, sel, ui, scr) ==
    IF ~changed
    THEN centerTimers
    ELSE IF hasInitialized /\ ~scr /\ Len(dates) > 0
         THEN {[rem |-> CENTER_DELAY, sel |-> sel, ui |-> FALSE, scr |-> scr]}
         ELSE {}

\* Mutant: the effect's guard does not test isScrolling.
CenterEffect_IgnoresScrolling(changed, sel, ui, scr) ==
    IF ~changed
    THEN centerTimers
    ELSE IF hasInitialized /\ ~ui /\ Len(dates) > 0
         THEN {[rem |-> CENTER_DELAY, sel |-> sel, ui |-> ui, scr |-> scr]}
         ELSE {}

\* Centering-on-change effect, deps [selectedDate, isUserInteracting, isScrolling].
CenterEffect(changed, sel, ui, scr) ==
    IF ~changed
    THEN centerTimers
    ELSE IF hasInitialized /\ ~ui /\ ~scr /\ Len(dates) > 0
         THEN {[rem |-> CENTER_DELAY, sel |-> sel, ui |-> ui, scr |-> scr]}
         ELSE {}

\* Mutant: the guard does not test disableAutoScroll.
AutoScrollBlocked_IgnoresDisabled(dis, sel, tdy, ui, scr) ==
    isSameDay(sel, tdy) \/ ui \/ scr

\* Mutant: the guard does not test isUserInteracting.
AutoScrollBlocked_IgnoresInteracting(dis, sel, tdy, ui, scr) ==
    dis \/ isSameDay(sel, tdy) \/ scr

\* The guard of the auto-scroll effect and of its timer callback.
AutoScrollBlocked(dis, sel, tdy, ui, scr) ==
    dis \/ isSameDay(sel, tdy) \/ ui \/ scr

\* Mutant: the effect arms a timer without clearing the one the reference holds.
AutoEffect_KeepsOld(changed, timers, ref, sel, dis, ui, scr, tdy) ==
    IF ~changed
    THEN [timers |-> timers, ref |-> ref]
    ELSE IF AutoScrollBlocked(dis, sel, tdy, ui, scr)
         THEN [timers |-> IF ref # 0 THEN clearTimeout(timers, ref) ELSE timers,
               ref |-> 0]
         ELSE LET id == FreshId(timers, ref)
              IN  [timers |-> timers \cup
                              {[id |-> id, rem |-> AUTO_SCROLL_DELAY, sel |-> sel,
                                dis |-> dis, ui |-> ui, scr |-> scr, today |-> tdy]},
                   ref |-> id]

\* Auto-scroll effect, deps [selectedDate, isUserInteracting, isScrolling,
\* onDateSelect, disableAutoScroll]: the pending timers and the reference after it.
AutoEffect(changed, timers, ref, sel, dis, ui, scr, tdy) ==
    IF ~changed
    THEN [timers |-> timers, ref |-> ref]
    ELSE LET cleared == IF ref # 0 THEN clearTimeout(timers, ref) ELSE timers
         IN  IF AutoScrollBlocked(dis, sel, tdy, ui, scr)
             THEN [timers |-> cleared, ref |-> 0]
             ELSE LET id == FreshId(cleared, ref)
                  IN  [timers |-> cleared \cup
                                  {[id |-> id, rem |-> AUTO_SCROLL_DELAY, sel |-> sel,
                                    dis |-> dis, ui |-> ui, scr |-> scr, today |-> tdy]},
                       ref |-> id]

\* Mutant: the centering effect depends on selectedDate alone.
Render_CenterOnSelectionOnly(sel, item, selChanged, dis, ui, scr, hostRendered, timers) ==
    LET uiCh  == ui # isUserInteracting
        scrCh == scr # isScrolling
        disCh == dis # disableAutoScroll
        auto  == AutoEffect(selChanged \/ uiCh \/ scrCh \/ hostRendered \/ disCh,
                            timers, autoRef, sel, dis, ui, scr, today)
    IN  /\ selectedDate' = sel
        /\ selItem' = item
        /\ disableAutoScroll' = dis
        /\ isUserInteracting' = ui
        /\ isScrolling' = scr
        /\ initTimers' = InitEffect(selChanged, sel)
        /\ centerTimers' = CenterEffect(selChanged, sel, ui, scr)
        /\ autoTimers' = auto.timers
        /\ autoRef' = auto.ref

\* A commit: the new props and state, then the effects whose deps changed.
\* selChanged: selectedDate is another object; hostRendered: the host rendered,
\* so onDateSelect is another function; timers: the auto-scroll timers left by
\* the handler.
Render(sel, item, selChanged, dis, ui, scr, hostRendered, timers) ==
    LET uiCh  == ui # isUserInteracting
        scrCh == scr # isScrolling
        disCh == dis # disableAutoScroll
        auto  == AutoEffect(selChanged \/ uiCh \/ scrCh \/ hostRendered \/ disCh,
                            timers, autoRef, sel, dis, ui, scr, today)
    IN  /\ selectedDate' = sel
        /\ selItem' = item
        /\ disableAutoScroll' = dis
        /\ isUserInteracting' = ui
        /\ isScrolling' = scr
        /\ initTimers' = InitEffect(selChanged, sel)
        /\ centerTimers' = CenterEffect(selChanged \/ uiCh \/ scrCh, sel, ui, scr)
        /\ autoTimers' = auto.timers
        /\ autoRef' = auto.ref

\* What the callback issued; `returns` is the new value of returnCmds.
Observe(cmds, calls, returns) ==
    /\ scrollCmds' = cmds
    /\ selectCalls' = calls
    /\ hostCalls' = <<>>
    /\ returnCmds' = returns

\* The scrollTo commands of cmds that target today's item.
ToToday(cmds) ==
    Cardinality({k \in 1..Len(cmds) : cmds[k].x = WindowDays * itemTotalWidth})

\* returnCmds after a deferred centering that issued cmds.
Returned(cmds) == IF returnCmds > 0 THEN returnCmds + ToToday(cmds) ELSE 0

(***************************************************************************)
(* Inputs.                                                                 *)
(***************************************************************************)
\* Calendar days (relative to the day of mount) the host selects.
HostDayOffsets == {-(WindowDays + 1), -1, 0}

HostDates == {addDays(0, k) : k \in HostDayOffsets}

\* route.params.selectedDate is absent (undefined or null).
NoParam == <<>>

\* Items of the timeline the user taps (0-based indices).
TapItems == {WindowDays - 1, WindowDays}

(***************************************************************************)
(* The storage (src/src/utils/storage.ts, the version of lines 89-168 with *)
(* the three-argument saveMoodEntry the screen calls, and deleteMoodEntry  *)
(* of lines 77-86).  A date string 'yyyy-MM-dd' is the calendar day it     *)
(* names; an id `mood_${timestamp}` is its timestamp, and the timestamp    *)
(* field, which this version only writes, is left out of an entry.  An     *)
(* optional value is a sequence: <<>> for undefined or null, <<v>> for v.  *)
(***************************************************************************)
\* date-fns format(date, 'yyyy-MM-dd').
format(date) == DayOf(date)

\* entries.findIndex((entry) => entry.date === targetDate), 1-based; 0 for -1.
existingIndex(list, targetDate) ==
    LET found == {k \in 1..Len(list) : list[k].date = targetDate}
    IN  IF found = {} THEN 0 ELSE SetMin(found)

\* The entry saveMoodEntry builds (lines 140-152).
newEntry(list, rating, notes, targetDate, timestamp) ==
    LET k == existingIndex(list, targetDate)
    IN  [id        |-> IF k > 0 THEN list[k].id ELSE timestamp,
         date      |-> targetDate,
         rating    |-> rating,
         notes     |-> IF notes # <<>> THEN notes
                       ELSE IF k > 0 THEN list[k].notes ELSE <<>>]

\* entries[existingIndex] = newEntry, or entries.push(newEntry) (lines 148-157).
upsert(list, e) ==
    LET k == existingIndex(list, e.date)
    IN  IF k > 0 THEN [list EXCEPT ![k] = e] ELSE Append(list, e)

\* e inserted into a list in descending date order, after the entries that do
\* not come after it.
RECURSIVE insertByDate(_, _)
insertByDate(sorted, e) ==
    IF sorted = <<>> THEN <<e>>
    ELSE IF Head(sorted).date >= e.date
         THEN <<Head(sorted)>> \o insertByDate(Tail(sorted), e)
         ELSE <<e>> \o sorted

\* entries.sort((a, b) => b.date.localeCompare(a.date)): a stable sort.
RECURSIVE sortByDate(_)
sortByDate(list) ==
    IF list = <<>> THEN <<>>
    ELSE insertByDate(sortByDate(SubSeq(list, 1, Len(list) - 1)), list[Len(list)])

\* The list saveMoodEntry writes, from the list it read.
saveMoodEntry(list, rating, notes, targetDate, timestamp) ==
    sortByDate(upsert(list, newEntry(list, rating, notes, targetDate, timestamp)))

\* The list deleteMoodEntry writes: entries.filter((entry) => entry.id !== id).
deleteMoodEntry(list, id) == SelectSeq(list, LAMBDA e : e.id # id)

\* entries.find((entry) => entry.date === date) || null.
getMoodEntryByDate(list, date) ==
    LET k == existingIndex(list, date)
    IN  IF k > 0 THEN <<list[k]>> ELSE <<>>

\* The storage is empty, no call is in flight and the screen shows its defaults.
ScreenIdle ==
    /\ entries = <<>>
    /\ clock = 1
    /\ callsMade = 0
    /\ storageCalls = {}
    /\ existingEntry = <<>>
    /\ moodValue = DefaultMood
    /\ pendingMoodValue = DefaultMood
    /\ isSaving = FALSE
    /\ showJournalModal = FALSE
    /\ modalOpener = "none"

(***************************************************************************)
(* Init: the state after mount (first render and its effects).             *)
(***************************************************************************)
Init ==
    /\ mounted = TRUE
    /\ today = DayParts - 1
    /\ dates = dateArray(today)
    /\ selectedDate \in HostDates
    /\ selItem = -1
    /\ disableAutoScroll \in BOOLEAN
    /\ routeParam = NoParam
    /\ isScrolling = FALSE
    /\ isUserInteracting = FALSE
    /\ hasInitialized = FALSE
    /\ initTimers = {[rem |-> INIT_DELAY, sel |-> selectedDate]}
    /\ centerTimers = {}
    /\ LET auto == AutoEffect(TRUE, {}, 0, selectedDate, disableAutoScroll,
                              FALSE, FALSE, today)
       IN  autoTimers = auto.timers /\ autoRef = auto.ref
    /\ graceTimers = {}
    /\ rafQueue = <<>>
    /\ surface = "rest"
    /\ scrollCmds = <<>>
    /\ selectCalls = <<>>
    /\ hostCalls = <<>>
    /\ returnCmds = 0
    /\ ScreenIdle

(***************************************************************************)
(* Gesture handlers.  The ScrollView delivers onScrollBeginDrag when a     *)
(* finger starts dragging (also into a running momentum scroll),           *)
(* onScrollEndDrag when it lifts, and onMomentumScrollEnd when a momentum  *)
(* scroll that followed the lift comes to rest; an item is pressed only    *)
(* while no finger drags the surface.                                      *)
(***************************************************************************)
\* Mutant: the handler does not call setIsScrolling(true).
handleScrollBeginDrag_NoScrolling ==
    /\ mounted
    /\ surface # "drag"
    /\ surface' = "drag"
    /\ Render(selectedDate, selItem, FALSE, disableAutoScroll, TRUE, isScrolling, FALSE,
              clearTimeout(autoTimers, autoRef))
    /\ Observe(<<>>, <<>>, 0)
    /\ UNCHANGED <<screenVars, mounted, today, dates, routeParam, hasInitialized, graceTimers,
                   rafQueue>>

handleScrollBeginDrag ==
    /\ mounted
    /\ surface # "drag"
    /\ surface' = "drag"
    /\ Render(selectedDate, selItem, FALSE, disableAutoScroll, TRUE, TRUE, FALSE,
              clearTimeout(autoTimers, autoRef))
    /\ Observe(<<>>, <<>>, 0)
    /\ UNCHANGED <<screenVars, mounted, today, dates, routeParam, hasInitialized, graceTimers,
                   rafQueue>>

\* Mutant: the end of a drag schedules no grace-release timeout.
handleScrollEndDrag_NoGrace ==
    /\ mounted
    /\ surface = "drag"
    /\ Cardinality(graceTimers) < MaxGrace
    /\ \E momentum \in BOOLEAN :
           surface' = IF momentum THEN "momentum" ELSE "rest"
    /\ Render(selectedDate, selItem, FALSE, disableAutoScroll, isUserInteracting,
              FALSE, FALSE, autoTimers)
    /\ graceTimers' = graceTimers
    /\ Observe(<<>>, <<>>, 0)
    /\ UNCHANGED <<screenVars, mounted, today, dates, routeParam, hasInitialized, rafQueue>>

\* Mutant: the end of a drag selects today's item.
handleScrollEndDrag_SnapsSelection ==
    /\ mounted
    /\ surface = "drag"
    /\ Cardinality(graceTimers) < MaxGrace
    /\ \E momentum \in BOOLEAN :
           surface' = IF momentum THEN "momentum" ELSE "rest"
    /\ Render(dates[WindowDays + 1], WindowDays, selItem # WindowDays, disableAutoScroll,
              isUserInteracting, FALSE, selItem # WindowDays, autoTimers)
    /\ graceTimers' = graceTimers \cup {[kind |-> "drag", rem |-> DRAG_GRACE]}
    /\ Observe(<<>>, <<[date |-> dates[WindowDays + 1], by |-> "snap"]>>, 0)
    /\ UNCHANGED <<screenVars, mounted, today, dates, routeParam, hasInitialized, rafQueue>>

handleScrollEndDrag ==
    /\ mounted
    /\ surface = "drag"
    /\ Cardinality(graceTimers) < MaxGrace
    /\ \E momentum \in BOOLEAN :
           surface' = IF momentum THEN "momentum" ELSE "rest"
    /\ Render(selectedDate, selItem, FALSE, disableAutoScroll, isUserInteracting,
              FALSE, FALSE, autoTimers)
    /\ graceTimers' = graceTimers \cup {[kind |-> "drag", rem |-> DRAG_GRACE]}
    /\ Observe(<<>>, <<>>, 0)
    /\ UNCHANGED <<screenVars, mounted, today, dates, routeParam, hasInitialized, rafQueue>>

handleMomentumScrollEnd ==
    /\ mounted
    /\ surface = "momentum"
    /\ Cardinality(graceTimers) < MaxGrace
    /\ surface' = "rest"
    /\ Render(selectedDate, selItem, FALSE, disableAutoScroll, isUserInteracting,
              FALSE, FALSE, autoTimers)
    /\ graceTimers' = graceTimers \cup {[kind |-> "momentum", rem |-> MOMENTUM_GRACE]}
    /\ Observe(<<>>, <<>>, 0)
    /\ UNCHANGED <<screenVars, mounted, today, dates, routeParam, hasInitialized, rafQueue>>

\* The host's onDateSelect, handleDateSelect: setSelectedDate(date).  Setting the
\* object the state already holds renders nothing.
handleDatePress(i) ==
    /\ mounted
    /\ surface # "drag"
    /\ Cardinality(graceTimers) < MaxGrace
    /\ Len(rafQueue) < MaxRaf
    /\ LET date == dates[i + 1]
           hostRendered == selItem # i
       IN  /\ Render(date, i, hostRendered, disableAutoScroll, TRUE, isScrolling,
                     hostRendered, clearTimeout(autoTimers, autoRef))
           /\ rafQueue' = Append(rafQueue, date)
           /\ Observe(<<>>, <<[date |-> date, by |-> "tap"]>>, 0)
    /\ graceTimers' = graceTimers \cup {[kind |-> "tap", rem |-> TAP_GRACE]}
    /\ UNCHANGED <<screenVars, mounted, today, dates, routeParam, hasInitialized, surface>>

(***************************************************************************)
(* The host.                                                               *)
(***************************************************************************)
\* Mutant: an external date change clears hasInitialized.current.
ExternalDateChange_Reinit(d, s) ==
    /\ mounted
    /\ Render(d, -1, TRUE, s, isUserInteracting, isScrolling, TRUE, autoTimers)
    /\ hasInitialized' = FALSE
    /\ scrollCmds' = <<>>
    /\ selectCalls' = <<>>
    /\ hostCalls' = <<[date |-> d, suppress |-> s]>>
    /\ returnCmds' = 0
    /\ UNCHANGED <<screenVars, mounted, today, dates, routeParam, graceTimers, rafQueue, surface>>

\* Mutant: the delivery flips the suppression flag instead of setting it.
ExternalDateChange_TogglesSuppress(d, s) ==
    /\ mounted
    /\ Render(d, -1, TRUE, ~disableAutoScroll, isUserInteracting, isScrolling, TRUE,
              autoTimers)
    /\ scrollCmds' = <<>>
    /\ selectCalls' = <<>>
    /\ hostCalls' = <<[date |-> d, suppress |-> s]>>
    /\ returnCmds' = 0
    /\ UNCHANGED <<screenVars, mounted, today, dates, routeParam, hasInitialized, graceTimers,
                   rafQueue, surface>>

\* The host sets selectedDate to a new Date and disableAutoScroll, and renders.
ExternalDateChange(d, s) ==
    /\ mounted
    /\ Render(d, -1, TRUE, s, isUserInteracting, isScrolling, TRUE, autoTimers)
    /\ scrollCmds' = <<>>
    /\ selectCalls' = <<>>
    /\ hostCalls' = <<[date |-> d, suppress |-> s]>>
    /\ returnCmds' = 0
    /\ UNCHANGED <<screenVars, mounted, today, dates, routeParam, hasInitialized, graceTimers,
                   rafQueue, surface>>

\* The host changes disableAutoScroll alone (setDisableAutoScroll) and renders.
HostSetDisable(s) ==
    /\ mounted
    /\ s # disableAutoScroll
    /\ Render(selectedDate, selItem, FALSE, s, isUserInteracting, isScrolling, TRUE,
              autoTimers)
    /\ Observe(<<>>, <<>>, 0)
    /\ UNCHANGED <<screenVars, mounted, today, dates, routeParam, hasInitialized, graceTimers,
                   rafQueue, surface>>

\* The host renders for a reason of its own (a mood-slider change): the props
\* keep their values, onDateSelect is a new function.
HostRerender ==
    /\ mounted
    /\ Render(selectedDate, selItem, FALSE, disableAutoScroll, isUserInteracting,
              isScrolling, TRUE, autoTimers)
    /\ Observe(<<>>, <<>>, 0)
    /\ UNCHANGED <<screenVars, mounted, today, dates, routeParam, hasInitialized, graceTimers,
                   rafQueue, surface>>

\* Unmount: the cleanups of the three effects run; nothing else is cancelled.
Unmount ==
    /\ mounted
    /\ mounted' = FALSE
    /\ initTimers' = {}
    /\ centerTimers' = {}
    /\ autoTimers' = clearTimeout(autoTimers, autoRef)
    /\ autoRef' = 0
    /\ Observe(<<>>, <<>>, 0)
    /\ UNCHANGED <<screenVars, today, dates, routeParam, selectedDate, selItem,
                   disableAutoScroll, isScrolling,
                   isUserInteracting, hasInitialized, graceTimers, rafQueue, surface>>

(***************************************************************************)
(* Deferred callbacks.                                                     *)
(***************************************************************************)
InitTimerFire ==
    \E t \in initTimers :
        /\ t.rem = 0
        /\ initTimers' = initTimers \ {t}
        /\ IF mounted /\ Len(dates) > 0
           THEN /\ hasInitialized' = TRUE
                /\ LET cmds == centerDateInScroll(t.sel, FALSE, "init")
                   IN  Observe(cmds, <<>>, Returned(cmds))
           ELSE /\ hasInitialized' = hasInitialized
                /\ Observe(<<>>, <<>>, returnCmds)
        /\ UNCHANGED <<screenVars, mounted, today, dates, routeParam, selectedDate, selItem,
                       disableAutoScroll,
                       isScrolling, isUserInteracting, autoRef, autoTimers,
                       centerTimers, graceTimers, rafQueue, surface>>

CenterTimerFire ==
    \E t \in centerTimers :
        /\ t.rem = 0
        /\ centerTimers' = centerTimers \ {t}
        /\ IF ~t.ui /\ ~t.scr
           THEN LET cmds == centerDateInScroll(t.sel, TRUE, "center")
                IN  Observe(cmds, <<>>, Returned(cmds))
           ELSE Observe(<<>>, <<>>, returnCmds)
        /\ UNCHANGED <<screenVars, mounted, today, dates, routeParam, selectedDate, selItem,
                       disableAutoScroll,
                       isScrolling, isUserInteracting, hasInitialized, autoRef,
                       autoTimers, initTimers, graceTimers, rafQueue, surface>>

\* The auto-scroll timer callback acts: none of its captured guards holds.
AutoScrollActs(t) ==
    ~(AutoScrollBlocked(t.dis, t.sel, t.today, t.ui, t.scr) \/ ~mounted)

\* Mutant: the callback centers the selected date it captured, not today.
AutoCallback_CentersSelected(t) ==
    IF AutoScrollActs(t)
    THEN /\ Render(t.today, -1, TRUE, disableAutoScroll, isUserInteracting,
                   isScrolling, TRUE, autoTimers \ {t})
         /\ LET cmds == centerDateInScroll(t.sel, TRUE, "auto")
            IN  Observe(cmds, <<[date |-> t.today, by |-> "auto"]>>, ToToday(cmds))
    ELSE /\ autoTimers' = autoTimers \ {t}
         /\ Observe(<<>>, <<>>, returnCmds)
         /\ UNCHANGED <<selectedDate, selItem, disableAutoScroll, isScrolling,
                        isUserInteracting, autoRef, initTimers, centerTimers>>

\* The callback of the auto-scroll timer t: centerDateInScroll(today) and
\* onDateSelect(today), which the host answers with setSelectedDate(today).
AutoCallback(t) ==
    IF AutoScrollActs(t)
    THEN /\ Render(t.today, -1, TRUE, disableAutoScroll, isUserInteracting,
                   isScrolling, TRUE, autoTimers \ {t})
         /\ LET cmds == centerDateInScroll(t.today, TRUE, "auto")
            IN  Observe(cmds, <<[date |-> t.today, by |-> "auto"]>>, ToToday(cmds))
    ELSE /\ autoTimers' = autoTimers \ {t}
         /\ Observe(<<>>, <<>>, returnCmds)
         /\ UNCHANGED <<selectedDate, selItem, disableAutoScroll, isScrolling,
                        isUserInteracting, autoRef, initTimers, centerTimers>>

AutoTimerFire ==
    \E t \in autoTimers :
        /\ t.rem = 0
        /\ AutoCallback(t)
        /\ UNCHANGED <<screenVars, mounted, today, dates, routeParam, hasInitialized,
                       graceTimers, rafQueue,
                       surface>>

\* Mutant: the grace-release timeout ends the scrolling phase as well.
GraceTimerFire_ClearsScrolling ==
    \E t \in graceTimers :
        /\ t.rem = 0
        /\ graceTimers' = graceTimers \ {t}
        /\ IF mounted
           THEN Render(selectedDate, selItem, FALSE, disableAutoScroll, FALSE,
                       FALSE, FALSE, autoTimers)
           ELSE UNCHANGED <<selectedDate, selItem, disableAutoScroll, isScrolling,
                            isUserInteracting, autoRef, autoTimers, initTimers,
                            centerTimers>>
        /\ Observe(<<>>, <<>>, returnCmds)
        /\ UNCHANGED <<screenVars, mounted, today, dates, routeParam, hasInitialized, rafQueue,
                       surface>>

\* setIsUserInteracting(false) of a grace-release timeout; on an unmounted
\* component React drops the update.
GraceTimerFire ==
    \E t \in graceTimers :
        /\ t.rem = 0
        /\ graceTimers' = graceTimers \ {t}
        /\ IF mounted
           THEN Render(selectedDate, selItem, FALSE, disableAutoScroll, FALSE,
                       isScrolling, FALSE, autoTimers)
           ELSE UNCHANGED <<selectedDate, selItem, disableAutoScroll, isScrolling,
                            isUserInteracting, autoRef, autoTimers, initTimers,
                            centerTimers>>
        /\ Observe(<<>>, <<>>, returnCmds)
        /\ UNCHANGED <<screenVars, mounted, today, dates, routeParam, hasInitialized, rafQueue,
                       surface>>

\* Mutant: the frame callback centers the date selected when it runs.
RafFire_CentersSelected ==
    /\ rafQueue # <<>>
    /\ rafQueue' = Tail(rafQueue)
    /\ LET cmds == centerDateInScroll(selectedDate, TRUE, "raf")
       IN  Observe(cmds, <<>>, Returned(cmds))
    /\ UNCHANGED <<screenVars, mounted, today, dates, routeParam, selectedDate, selItem,
                   disableAutoScroll,
                   isScrolling, isUserInteracting, hasInitialized, autoRef, autoTimers,
                   initTimers, centerTimers, graceTimers, surface>>

\* The animation-frame callback of handleDatePress.
RafFire ==
    /\ rafQueue # <<>>
    /\ rafQueue' = Tail(rafQueue)
    /\ LET cmds == centerDateInScroll(Head(rafQueue), TRUE, "raf")
       IN  Observe(cmds, <<>>, Returned(cmds))
    /\ UNCHANGED <<screenVars, mounted, today, dates, routeParam, selectedDate, selItem,
                   disableAutoScroll,
                   isScrolling, isUserInteracting, hasInitialized, autoRef, autoTimers,
                   initTimers, centerTimers, graceTimers, surface>>

\* Time passes.
Tick ==
    /\ rafQueue = <<>>
    /\ AllTimers # {}
    /\ \A t \in AllTimers : t.rem >= Quantum
    /\ autoTimers' = Elapse(autoTimers)
    /\ initTimers' = Elapse(initTimers)
    /\ centerTimers' = Elapse(centerTimers)
    /\ graceTimers' = Elapse(graceTimers)
    /\ Observe(<<>>, <<>>, returnCmds)
    /\ UNCHANGED <<screenVars, mounted, today, dates, routeParam, selectedDate, selItem,
                   disableAutoScroll,
                   isScrolling, isUserInteracting, hasInitialized, autoRef, rafQueue,
                   surface>>

Next ==
    \/ handleScrollBeginDrag
    \/ handleScrollEndDrag
    \/ handleMomentumScrollEnd
    \/ \E i \in TapItems : handleDatePress(i)
    \/ \E d \in HostDates, s \in BOOLEAN : ExternalDateChange(d, s)
    \/ \E s \in BOOLEAN : HostSetDisable(s)
    \/ HostRerender
    \/ Unmount
    \/ InitTimerFire
    \/ CenterTimerFire
    \/ AutoTimerFire
    \/ GraceTimerFire
    \/ RafFire
    \/ Tick

Spec == Init /\ [][Next]_vars

(***************************************************************************)
(* Spec with the event loop's progress: a due callback is run and time     *)
(* passes.  The events of the user and of the host stay unconstrained.     *)
(***************************************************************************)
\* The steps that need no event: time passing and the deferred callbacks.
QuietNext ==
    \/ Tick
    \/ InitTimerFire
    \/ CenterTimerFire
    \/ AutoTimerFire
    \/ GraceTimerFire
    \/ RafFire

SpecLive ==
    /\ Init /\ [][Next]_vars
    /\ WF_vars(Tick)
    /\ WF_vars(InitTimerFire)
    /\ WF_vars(CenterTimerFire)
    /\ WF_vars(AutoTimerFire)
    /\ WF_vars(GraceTimerFire)
    /\ WF_vars(RafFire)

(***************************************************************************)
(* The mount itself, for any date of the device and any selected date the  *)
(* host passes: the first render, then its effects in source order (the    *)
(* date generation, the initialization effect, the centering effect, the   *)
(* auto-scroll effect), and the timers they started running undisturbed.   *)
(***************************************************************************)
\* The device's date at mount.
AnchorTimes == (-DayParts)..((MaxAnchorDay + 1) * DayParts - 1)

\* The selected dates the host mounts the component with: any time of day on a
\* day of the window or one day beyond it.
MountDates(tdy) ==
    {(DayOf(tdy) + k) * DayParts + p :
         k \in (-(WindowDays + 1))..(WindowDays + 1), p \in 0..(DayParts - 1)}

\* Before the first render.
InitMount ==
    /\ mounted = FALSE
    /\ today \in AnchorTimes
    /\ dates = <<>>
    /\ selectedDate \in MountDates(today)
    /\ selItem = -1
    /\ disableAutoScroll \in BOOLEAN
    /\ routeParam = NoParam
    /\ isScrolling = FALSE
    /\ isUserInteracting = FALSE
    /\ hasInitialized = FALSE
    /\ autoRef = 0
    /\ autoTimers = {}
    /\ initTimers = {}
    /\ centerTimers = {}
    /\ graceTimers = {}
    /\ rafQueue = <<>>
    /\ surface = "rest"
    /\ scrollCmds = <<>>
    /\ selectCalls = <<>>
    /\ hostCalls = <<>>
    /\ returnCmds = 0
    /\ ScreenIdle

Mount ==
    /\ ~mounted /\ dates = <<>>
    /\ mounted' = TRUE
    /\ dates' = dateArray(today)
    /\ initTimers' = IF ~hasInitialized /\ Len(dates') > 0
                     THEN {[rem |-> INIT_DELAY, sel |-> selectedDate]}
                     ELSE {}
    /\ centerTimers' = IF hasInitialized /\ ~isUserInteracting /\ ~isScrolling
                          /\ Len(dates') > 0
                       THEN {[rem |-> CENTER_DELAY, sel |-> selectedDate,
                              ui |-> isUserInteracting, scr |-> isScrolling]}
                       ELSE {}
    /\ LET auto == AutoEffect(TRUE, autoTimers, autoRef, selectedDate,
                              disableAutoScroll, isUserInteracting, isScrolling, today)
       IN  autoTimers' = auto.timers /\ autoRef' = auto.ref
    /\ Observe(<<>>, <<>>, 0)
    /\ UNCHANGED <<screenVars, today, routeParam, selectedDate, selItem, disableAutoScroll,
                   isScrolling, isUserInteracting, hasInitialized, graceTimers,
                   rafQueue, surface>>

NextMount ==
    \/ Mount
    \/ InitTimerFire
    \/ CenterTimerFire
    \/ AutoTimerFire
    \/ Tick

SpecMount == InitMount /\ [][NextMount]_vars

\* The state Spec starts in is the state Mount leaves.
MountYieldsInit ==
    (/\ mounted /\ today = DayParts - 1 /\ selectedDate \in HostDates
     /\ (\E t \in initTimers : t.rem = INIT_DELAY))
        => Init

(***************************************************************************)
(* The component under its host, MoodTrackerScreen.  The host owns         *)
(* selectedDate and disableAutoScroll; its effects run in the commit of    *)
(* the render that changed their dependencies, so the render they cause    *)
(* is part of the same step.  A route parameter is modelled as the date    *)
(* `new Date(route.params.selectedDate)` yields.                           *)
(***************************************************************************)
\* What the effect of lines 64-72 and the focus listener of lines 76-85 set
\* disableAutoScroll to.
hostDisable(sel, param) == ~(isSameDay(sel, today) /\ param = NoParam)

\* The dates another screen navigates here with.
RouteDates == HostDates

\* After the mount of the screen and of the component, and the host's effects.
InitHost ==
    /\ mounted = TRUE
    /\ today = DayParts - 1
    /\ dates = dateArray(today)
    /\ routeParam \in {NoParam} \cup {<<p>> : p \in RouteDates}
    /\ selectedDate = IF routeParam # NoParam THEN routeParam[1] ELSE today
    /\ selItem = -1
    /\ disableAutoScroll = hostDisable(selectedDate, routeParam)
    /\ isScrolling = FALSE
    /\ isUserInteracting = FALSE
    /\ hasInitialized = FALSE
    /\ initTimers = {[rem |-> INIT_DELAY, sel |-> selectedDate]}
    /\ centerTimers = {}
    /\ LET auto == AutoEffect(TRUE, {}, 0, selectedDate, disableAutoScroll,
                              FALSE, FALSE, today)
       IN  autoTimers = auto.timers /\ autoRef = auto.ref
    /\ graceTimers = {}
    /\ rafQueue = <<>>
    /\ surface = "rest"
    /\ scrollCmds = <<>>
    /\ selectCalls = <<>>
    /\ hostCalls = <<>>
    /\ returnCmds = 0
    /\ ScreenIdle

\* A tap under this host: handleDatePress calls onDateSelect = handleDateSelect,
\* which sets selectedDate; the effect of lines 64-72 then sets disableAutoScroll.
handleDateSelect(i) ==
    /\ mounted
    /\ surface # "drag"
    /\ Cardinality(graceTimers) < MaxGrace
    /\ Len(rafQueue) < MaxRaf
    /\ LET date == dates[i + 1]
           hostRendered == selItem # i
       IN  /\ Render(date, i, hostRendered,
                     IF hostRendered THEN hostDisable(date, routeParam)
                                     ELSE disableAutoScroll,
                     TRUE, isScrolling, hostRendered,
                     clearTimeout(autoTimers, autoRef))
           /\ rafQueue' = Append(rafQueue, date)
           /\ Observe(<<>>, <<[date |-> date, by |-> "tap"]>>, 0)
    /\ graceTimers' = graceTimers \cup {[kind |-> "tap", rem |-> TAP_GRACE]}
    /\ UNCHANGED <<screenVars, mounted, today, dates, routeParam, hasInitialized, surface>>

\* Another screen navigates here with a date: the effect of lines 53-60 sets
\* selectedDate to it and disableAutoScroll to true; the effect of lines 64-72
\* follows.
RouteParamChange(p) ==
    /\ mounted
    /\ <<p>> # routeParam
    /\ routeParam' = <<p>>
    /\ Render(p, -1, TRUE, hostDisable(p, <<p>>), isUserInteracting, isScrolling, TRUE,
              autoTimers)
    /\ scrollCmds' = <<>>
    /\ selectCalls' = <<>>
    /\ hostCalls' = <<[date |-> p, suppress |-> hostDisable(p, <<p>>)]>>
    /\ returnCmds' = 0
    /\ UNCHANGED <<screenVars, mounted, today, dates, hasInitialized, graceTimers, rafQueue,
                   surface>>

\* The home button: selectedDate = new Date(), the route parameter is cleared,
\* disableAutoScroll = false; the effect of lines 64-72 follows.
handleHomePress ==
    /\ mounted
    /\ routeParam' = NoParam
    /\ Render(today, -1, TRUE, hostDisable(today, NoParam), isUserInteracting,
              isScrolling, TRUE, autoTimers)
    /\ scrollCmds' = <<>>
    /\ selectCalls' = <<>>
    /\ hostCalls' = <<[date |-> today, suppress |-> hostDisable(today, NoParam)]>>
    /\ returnCmds' = 0
    /\ UNCHANGED <<screenVars, mounted, today, dates, hasInitialized, graceTimers, rafQueue,
                   surface>>

\* The navigation focus listener.
FocusListener ==
    /\ mounted
    /\ LET dis == hostDisable(selectedDate, routeParam)
       IN  Render(selectedDate, selItem, FALSE, dis, isUserInteracting, isScrolling,
                  dis # disableAutoScroll, autoTimers)
    /\ Observe(<<>>, <<>>, 0)
    /\ UNCHANGED <<screenVars, mounted, today, dates, routeParam, hasInitialized, graceTimers,
                   rafQueue, surface>>

\* Under this host the auto-return timer is never armed, so its callback is not
\* among the steps (HostSettled holds in every state of SpecHost).
NextHost ==
    \/ handleScrollBeginDrag
    \/ handleScrollEndDrag
    \/ handleMomentumScrollEnd
    \/ \E i \in TapItems : handleDateSelect(i)
    \/ \E p \in RouteDates : RouteParamChange(p)
    \/ handleHomePress
    \/ FocusListener
    \/ HostRerender
    \/ Unmount
    \/ InitTimerFire
    \/ CenterTimerFire
    \/ GraceTimerFire
    \/ RafFire
    \/ Tick

SpecHost == InitHost /\ [][NextHost]_vars

\* SpecHost with the event loop's progress: a due callback is run and time
\* passes.
SpecHostLive ==
    /\ InitHost /\ [][NextHost]_vars
    /\ WF_vars(Tick)
    /\ WF_vars(InitTimerFire)
    /\ WF_vars(CenterTimerFire)
    /\ WF_vars(GraceTimerFire)
    /\ WF_vars(RafFire)

\* The host's flag follows its rule, and no auto-return timer is armed.
HostSettled ==
    /\ disableAutoScroll = hostDisable(selectedDate, routeParam)
    /\ autoTimers = {}

(***************************************************************************)
(* The component stays mounted over midnight.  `today` is computed by each *)
(* render (line 37) and captured by the effects of that render, while      *)
(* dates.current is built once, at mount.                                  *)
(***************************************************************************)
\* Midnight passes: from now on new Date() is on the next calendar day.
DayRollover ==
    /\ mounted
    /\ DayOf(today) - DayOf(dates[WindowDays + 1]) < MaxMidnights
    /\ today' = (DayOf(today) + 1) * DayParts
    /\ Observe(<<>>, <<>>, returnCmds)
    /\ UNCHANGED <<screenVars, mounted, dates, routeParam, selectedDate, selItem, disableAutoScroll,
                   isScrolling, isUserInteracting, hasInitialized, autoRef, autoTimers,
                   initTimers, centerTimers, graceTimers, rafQueue, surface>>

NextDay ==
    \/ Next
    \/ DayRollover

SpecDay == Init /\ [][NextDay]_vars

(***************************************************************************)
(* The storage calls and MoodTrackerScreen's handlers around them.  A call *)
(* is a promise chain: AsyncStorage.getItem, the function's code on the    *)
(* list it read, AsyncStorage.setItem, and the caller's code after the     *)
(* await.  Calls in flight interleave at the two awaits.  getItem may      *)
(* fail, and getMoodEntries then returns []; setItem may fail, and the     *)
(* function then throws.  The timeline is held at rest in these            *)
(* specifications: only the screen's selectedDate changes.                 *)
(***************************************************************************)
timelineVars == <<mounted, today, dates, selItem, disableAutoScroll, routeParam,
                  isScrolling, isUserInteracting, hasInitialized, autoRef, autoTimers,
                  initTimers, centerTimers, graceTimers, rafQueue, surface,
                  scrollCmds, selectCalls, hostCalls, returnCmds>>

TimelineAtRest ==
    /\ mounted = TRUE
    /\ today = DayParts - 1
    /\ dates = dateArray(today)
    /\ selItem = -1
    /\ disableAutoScroll = FALSE
    /\ routeParam = NoParam
    /\ isScrolling = FALSE
    /\ isUserInteracting = FALSE
    /\ hasInitialized = TRUE
    /\ autoRef = 0
    /\ autoTimers = {}
    /\ initTimers = {}
    /\ centerTimers = {}
    /\ graceTimers = {}
    /\ rafQueue = <<>>
    /\ surface = "rest"
    /\ scrollCmds = <<>>
    /\ selectCalls = <<>>
    /\ hostCalls = <<>>
    /\ returnCmds = 0

\* Inputs: the ratings of the slider, the texts of a journal, the dates the
\* user selects (today and the day before) and the lists found in the storage
\* when the screen opens.
Ratings == {DefaultMood, DefaultMood + 3}

NoteTexts == {"", "a"}

ScreenDates == {DayParts - 1, addDays(0, -1)}

InitStores ==
    {<<>>,
     <<[id |-> 0, date |-> format(addDays(0, -1)), rating |-> DefaultMood + 3,
        notes |-> <<"a">>]>>}

\* A call that has just been made: its getItem is on its way.
NewCall(n, op, owner, date, rating, notes, id) ==
    [n |-> n, op |-> op, owner |-> owner, pc |-> "read", date |-> date,
     rating |-> rating, notes |-> notes, id |-> id, out |-> <<>>, readOk |-> TRUE,
     overlapped |-> FALSE]

\* The calls S after a write: those that have read the list hold an old one.
Overlapped(S) == {[d EXCEPT !.overlapped = d.overlapped \/ d.pc = "write"] : d \in S}

\* Calls are numbered in the order they are made.
FreshCall == callsMade + 1

\* What getMoodEntries returns (lines 95-106): the stored list, or [] when
\* getItem or JSON.parse fails.
getMoodEntries ==
    {[list |-> entries, ok |-> TRUE], [list |-> <<>>, ok |-> FALSE]}

\* loadEntryForDate (lines 101-112), started for the date string `date`.
loadEntryForDate(n, date) == NewCall(n, "load", "load", date, 0, <<>>, 0)

\* Date.now() moves on.
ClockAdvance ==
    /\ clock < MaxClock
    /\ clock' = clock + 1
    /\ UNCHANGED <<timelineVars, callsMade, selectedDate, entries, storageCalls, existingEntry,
                   moodValue, pendingMoodValue, isSaving, showJournalModal, modalOpener>>

\* saveMoodEntry up to its setItem (lines 133-162).
SaveReads(c) ==
    /\ c.op = "save" /\ c.pc = "read"
    /\ \E r \in getMoodEntries :
           storageCalls' = (storageCalls \ {c}) \cup
               {[c EXCEPT !.pc = "write", !.readOk = r.ok,
                          !.out = saveMoodEntry(r.list, c.rating, c.notes, c.date, clock)]}
    /\ UNCHANGED <<timelineVars, callsMade, selectedDate, entries, clock, existingEntry, moodValue,
                   pendingMoodValue, isSaving, showJournalModal, modalOpener>>

\* The caller's code after `await saveMoodEntry(...)` returned: nothing for a
\* direct call, lines 132-138 for handleEmojiPress, line 154 for
\* handleJournalSave.
AfterSave(c) ==
    /\ storageCalls' = Overlapped(storageCalls \ {c}) \cup
           (IF c.owner \in {"journal", "view"} THEN {loadEntryForDate(c.n + 1, c.date)}
                                                ELSE {})
    /\ showJournalModal' = IF c.owner = "emoji" THEN TRUE ELSE showJournalModal
    /\ modalOpener' = IF c.owner = "emoji" /\ ~showJournalModal THEN "emoji"
                                                              ELSE modalOpener
    /\ isSaving' = IF c.owner = "emoji" THEN FALSE ELSE isSaving

\* Mutant: a failed save leaves isSaving set.
AfterSaveFailed_NoFinally(c) ==
    /\ storageCalls' = storageCalls \ {c}
    /\ UNCHANGED <<showJournalModal, modalOpener, isSaving>>

\* The caller's code after saveMoodEntry threw: the catch and finally of
\* handleEmojiPress (lines 133-138), the catch of handleJournalSave (155-158).
AfterSaveFailed(c) ==
    /\ storageCalls' = storageCalls \ {c}
    /\ UNCHANGED <<showJournalModal, modalOpener>>
    /\ isSaving' = IF c.owner = "emoji" THEN FALSE ELSE isSaving

\* setItem of saveMoodEntry succeeds: the list is stored and the caller resumes.
SaveWrites(c) ==
    /\ c.op = "save" /\ c.pc = "write"
    /\ entries' = c.out
    /\ AfterSave(c)
    /\ UNCHANGED <<timelineVars, callsMade, selectedDate, clock, existingEntry, moodValue,
                   pendingMoodValue>>

\* setItem of saveMoodEntry fails: the function throws (lines 164-167).
SaveFails(c) ==
    /\ c.op = "save" /\ c.pc = "write"
    /\ AfterSaveFailed(c)
    /\ UNCHANGED <<timelineVars, callsMade, selectedDate, entries, clock, existingEntry, moodValue,
                   pendingMoodValue>>

\* deleteMoodEntry up to its setItem.
DeleteReads(c) ==
    /\ c.op = "delete" /\ c.pc = "read"
    /\ \E r \in getMoodEntries :
           storageCalls' = (storageCalls \ {c}) \cup
               {[c EXCEPT !.pc = "write", !.readOk = r.ok,
                          !.out = deleteMoodEntry(r.list, c.id)]}
    /\ UNCHANGED <<timelineVars, callsMade, selectedDate, entries, clock, existingEntry, moodValue,
                   pendingMoodValue, isSaving, showJournalModal, modalOpener>>

DeleteWrites(c) ==
    /\ c.op = "delete" /\ c.pc = "write"
    /\ entries' = c.out
    /\ storageCalls' = Overlapped(storageCalls \ {c})
    /\ UNCHANGED <<timelineVars, callsMade, selectedDate, clock, existingEntry, moodValue,
                   pendingMoodValue, isSaving, showJournalModal, modalOpener>>

DeleteFails(c) ==
    /\ c.op = "delete" /\ c.pc = "write"
    /\ storageCalls' = storageCalls \ {c}
    /\ UNCHANGED <<timelineVars, callsMade, selectedDate, entries, clock, existingEntry, moodValue,
                   pendingMoodValue, isSaving, showJournalModal, modalOpener>>

\* getMoodEntryByDate returns to loadEntryForDate (lines 103-111).
LoadReturns(c) ==
    /\ c.op = "load" /\ c.pc = "read"
    /\ \E r \in getMoodEntries :
           LET entry == getMoodEntryByDate(r.list, c.date)
           IN  /\ existingEntry' = entry
               /\ moodValue' = IF entry # <<>> THEN entry[1].rating ELSE DefaultMood
    /\ storageCalls' = storageCalls \ {c}
    /\ UNCHANGED <<timelineVars, callsMade, selectedDate, entries, clock, pendingMoodValue,
                   isSaving, showJournalModal, modalOpener>>

\* Some module calls saveMoodEntry(rating, notes, date) directly.
SaveCall(rating, notes, date) ==
    /\ callsMade < MaxApiCalls
    /\ callsMade' = callsMade + 1
    /\ storageCalls' = storageCalls \cup
           {NewCall(FreshCall, "save", "api", date, rating, notes, 0)}
    /\ UNCHANGED <<timelineVars, selectedDate, entries, clock, existingEntry, moodValue,
                   pendingMoodValue, isSaving, showJournalModal, modalOpener>>

\* Some module calls deleteMoodEntry(id) with the id of a stored entry.
DeleteCall(id) ==
    /\ callsMade < MaxApiCalls
    /\ callsMade' = callsMade + 1
    /\ storageCalls' = storageCalls \cup
           {NewCall(FreshCall, "delete", "api", 0, 0, <<>>, id)}
    /\ UNCHANGED <<timelineVars, selectedDate, entries, clock, existingEntry, moodValue,
                   pendingMoodValue, isSaving, showJournalModal, modalOpener>>

(***************************************************************************)
(* SpecStore: the storage functions under any caller.                      *)
(***************************************************************************)
InitStore ==
    /\ TimelineAtRest
    /\ selectedDate = today
    /\ entries \in InitStores
    /\ clock = 1
    /\ callsMade = 0
    /\ storageCalls = {}
    /\ existingEntry = <<>>
    /\ moodValue = DefaultMood
    /\ pendingMoodValue = DefaultMood
    /\ isSaving = FALSE
    /\ showJournalModal = FALSE
    /\ modalOpener = "none"

NextStore ==
    \/ \E rating \in Ratings, notes \in {<<>>} \cup {<<t>> : t \in NoteTexts},
          date \in {format(d) : d \in ScreenDates} : SaveCall(rating, notes, date)
    \/ \E k \in 1..Len(entries) : DeleteCall(entries[k].id)
    \/ \E c \in storageCalls : SaveReads(c)
    \/ \E c \in storageCalls : SaveWrites(c)
    \/ \E c \in storageCalls : SaveFails(c)
    \/ \E c \in storageCalls : DeleteReads(c)
    \/ \E c \in storageCalls : DeleteWrites(c)
    \/ \E c \in storageCalls : DeleteFails(c)
    \/ ClockAdvance

SpecStore == InitStore /\ [][NextStore]_vars

(***************************************************************************)
(* SpecScreen: MoodTrackerScreen with its storage calls.  While the        *)
(* journal modal is shown the screen under it takes no touch.              *)
(***************************************************************************)
\* existingEntry?.notes || ''.
existingNotes == IF existingEntry # <<>> /\ existingEntry[1].notes # <<>>
                 THEN existingEntry[1].notes[1]
                 ELSE ""

\* setSelectedDate(d) by a tap on the timeline or the home button, and the
\* effect of lines 97-99 that loads the entry of the new date.
SelectDate(d) ==
    /\ ~showJournalModal
    /\ d # selectedDate
    /\ callsMade < MaxCalls
    /\ selectedDate' = d
    /\ callsMade' = callsMade + 1
    /\ storageCalls' = storageCalls \cup {loadEntryForDate(FreshCall, format(d))}
    /\ UNCHANGED <<timelineVars, entries, clock, existingEntry, moodValue,
                   pendingMoodValue, isSaving, showJournalModal, modalOpener>>

\* The slider (lines 114-116).
handleValueChange(value) ==
    /\ ~showJournalModal
    /\ value # moodValue
    /\ moodValue' = value
    /\ UNCHANGED <<timelineVars, callsMade, selectedDate, entries, clock, storageCalls,
                   existingEntry, pendingMoodValue, isSaving, showJournalModal, modalOpener>>

\* A press of the emoji (lines 118-130): nothing while a save is in progress.
handleEmojiPress ==
    /\ ~showJournalModal
    /\ IF isSaving
       THEN UNCHANGED <<callsMade, storageCalls, isSaving, pendingMoodValue>>
       ELSE /\ callsMade < MaxCalls
            /\ isSaving' = TRUE
            /\ pendingMoodValue' = moodValue
            /\ callsMade' = callsMade + 1
            /\ storageCalls' = storageCalls \cup
                   {NewCall(FreshCall, "save", "emoji", format(selectedDate), moodValue,
                            <<existingNotes>>, 0)}
    /\ UNCHANGED <<timelineVars, selectedDate, entries, clock, existingEntry,
                   moodValue, showJournalModal, modalOpener>>

\* The Update Rating button, shown when the date has an entry (lines 141-145).
handleUpdateRating ==
    /\ ~showJournalModal
    /\ existingEntry # <<>>
    /\ moodValue' = DefaultMood
    /\ UNCHANGED <<timelineVars, callsMade, selectedDate, entries, clock, storageCalls,
                   existingEntry, pendingMoodValue, isSaving, showJournalModal, modalOpener>>

\* The Journal button, shown when the entry has notes (lines 161-164).
handleJournalView ==
    /\ ~showJournalModal
    /\ existingEntry # <<>> /\ existingNotes # ""
    /\ showJournalModal' = TRUE
    /\ modalOpener' = "view"
    /\ UNCHANGED <<timelineVars, callsMade, selectedDate, entries, clock, storageCalls,
                   existingEntry, moodValue, pendingMoodValue, isSaving>>

\* handleJournalSave (lines 147-159) up to its first await: the save, and the
\* load that follows it, are counted as made.
handleJournalSave(notes) ==
    /\ callsMade + 1 < MaxCalls
    /\ callsMade' = callsMade + 2
    /\ storageCalls' = storageCalls \cup
           {NewCall(FreshCall, "save", IF modalOpener = "view" THEN "view" ELSE "journal",
                    format(selectedDate),
                    pendingMoodValue, <<notes>>, 0)}

\* Save of the journal modal (JournalModal lines 38-41): onSave(notes), onClose().
handleSave(notes) ==
    /\ showJournalModal
    /\ handleJournalSave(notes)
    /\ showJournalModal' = FALSE
    /\ modalOpener' = "none"
    /\ UNCHANGED <<timelineVars, selectedDate, entries, clock, existingEntry, moodValue,
                   pendingMoodValue, isSaving>>

\* Keep Original / Skip of the journal modal (JournalModal lines 43-51).
handleSkip ==
    /\ showJournalModal
    /\ handleJournalSave(existingNotes)
    /\ showJournalModal' = FALSE
    /\ modalOpener' = "none"
    /\ UNCHANGED <<timelineVars, selectedDate, entries, clock, existingEntry, moodValue,
                   pendingMoodValue, isSaving>>

\* The screen after mount: today or the date of the route parameter is selected
\* (lines 40-45) and its entry is being loaded.
InitScreen ==
    /\ TimelineAtRest
    /\ selectedDate \in ScreenDates
    /\ entries \in InitStores
    /\ clock = 1
    /\ callsMade = 1
    /\ storageCalls = {loadEntryForDate(1, format(selectedDate))}
    /\ existingEntry = <<>>
    /\ moodValue = DefaultMood
    /\ pendingMoodValue = DefaultMood
    /\ isSaving = FALSE
    /\ showJournalModal = FALSE
    /\ modalOpener = "none"

NextScreen ==
    \/ \E d \in ScreenDates : SelectDate(d)
    \/ \E value \in Ratings : handleValueChange(value)
    \/ handleEmojiPress
    \/ handleUpdateRating
    \/ handleJournalView
    \/ \E notes \in NoteTexts : handleSave(notes)
    \/ handleSkip
    \/ \E c \in storageCalls : SaveReads(c)
    \/ \E c \in storageCalls : SaveWrites(c)
    \/ \E c \in storageCalls : SaveFails(c)
    \/ \E c \in storageCalls : LoadReturns(c)
    \/ ClockAdvance

SpecScreen == InitScreen /\ [][NextScreen]_vars

(***************************************************************************)
(* Steps and states the properties speak about.                            *)
(***************************************************************************)
\* The list holds at most one entry per date.
OnePerDate(list) ==
    \A j, k \in 1..Len(list) : list[j].date = list[k].date => j = k

\* The list is in descending date order.
DescendingDates(list) ==
    \A j, k \in 1..Len(list) : j < k => list[j].date >= list[k].date

\* The saves started by handleEmojiPress that are in progress.
EmojiSaves == {c \in storageCalls : c.owner = "emoji"}

\* The step is an auto-return: the timer callback called onDateSelect(today).
AutoReturnStep == selectCalls' # <<>> /\ selectCalls'[1].by = "auto"

\* The step is handleDatePress.
TapStep == selectCalls' # <<>> /\ selectCalls'[1].by = "tap"

\* The step is handleScrollBeginDrag.
BeginDragStep == surface # "drag" /\ surface' = "drag"

\* The step is the animation-frame callback of a tap.
RafStep == rafQueue # <<>> /\ rafQueue' = Tail(rafQueue)

\* The step is the callback of the 150 ms first-layout timeout.
FirstLayoutStep ==
    mounted' /\ \E t \in initTimers : t.rem = 0 /\ initTimers' = initTimers \ {t}

\* The step delivers the date and suppression flag the step before delivered.
RepeatedDelivery == hostCalls # <<>> /\ hostCalls' = hostCalls

\* The centerings that are scheduled: their targets and remaining delays.
PendingCenterings ==
    [init |-> initTimers, center |-> centerTimers, frame |-> rafQueue]

\* The auto-return timers that are pending, without their ids.
PendingReturns ==
    [count |-> Cardinality(autoTimers),
     timers |-> {[rem |-> t.rem, sel |-> t.sel, dis |-> t.dis, today |-> t.today] :
                     t \in autoTimers}]

\* The date is on no day of the timeline.
OutsideWindow(d) ==
    DayOf(d) < DayOf(dates[1]) \/ DayOf(d) > DayOf(dates[Len(dates)])

\* The date the k-th scroll command of the step centers: the date the frame
\* callback was queued with, the date the auto-return selects, or the selection.
CenteredDate(k) ==
    CASE scrollCmds'[k].by = "raf"  -> Head(rafQueue)
      [] scrollCmds'[k].by = "auto" -> selectedDate'
      [] OTHER                      -> selectedDate

\* The step is a 50 ms re-centering callback that issued its command.
RecenterStep == scrollCmds' # <<>> /\ scrollCmds'[1].by = "center"

\* The last callback issued an animated command that centers the current
\* SelectedDate.
CenteredSelection ==
    /\ scrollCmds # <<>>
    /\ scrollCmds[1].animated
    /\ scrollCmds[1].x = (DayOf(selectedDate) - DayOf(dates[1])) * (80 + 2 * 2)

\* The host has just delivered a date of the window to an initialized component
\* that skips the centering: a drag is in progress or the interaction flag is set.
CenteringSkipped ==
    /\ hostCalls # <<>>
    /\ mounted /\ hasInitialized /\ ~OutsideWindow(selectedDate)
    /\ isScrolling \/ isUserInteracting

\* The step arms the auto-return timer t.
Arms(t) == t \in autoTimers' /\ t \notin autoTimers /\ t.rem = AUTO_SCROLL_DELAY

\* The offset of today's item, index WindowDays, with the geometry of lines 14-15.
AnchorOffset == WindowDays * (80 + 2 * 2)

\* A grace-release timeout of the given kinds is pending and not yet due.
InGrace(kinds) == \E g \in graceTimers : g.kind \in kinds /\ g.rem > 0

(***************************************************************************)
(* C1: auto-return never fires while a drag is in progress: the auto-return *)
(* acts (scrolls to today, calls onDateSelect(today)) only when isScrolling *)
(* is false, the surface is not dragged and no drag-end grace timeout is   *)
(* pending, that is, when 500 ms have passed since the last onDragEnd.     *)
(***************************************************************************)
C1_NoAutoReturnDuringDrag ==
    [][AutoReturnStep =>
            /\ surface # "drag"
            /\ ~isScrolling
            /\ \A g \in graceTimers : g.kind # "drag"]_vars

\* A drag goes on with nothing else holding the auto-return back: the flag was
\* cleared, suppression is off, another day is selected, no timer is pending.
C1_Witness ==
    /\ mounted /\ surface = "drag" /\ isScrolling
    /\ ~isUserInteracting /\ ~disableAutoScroll
    /\ ~isSameDay(selectedDate, today)
    /\ AllTimers = {}

(***************************************************************************)
(* C2: while disableAutoScroll is true no auto-return timer is pending and *)
(* no auto-return acts: a selected date is never reset to today under      *)
(* suppression.                                                            *)
(***************************************************************************)
C2_SuppressedNeverReturns ==
    [][/\ AutoReturnStep => ~disableAutoScroll
       /\ disableAutoScroll' => autoTimers' = {}]_vars

\* Suppressed on another day, idle, and every timer has run out.
C2_Witness ==
    /\ mounted /\ hasInitialized /\ disableAutoScroll
    /\ ~isSameDay(selectedDate, today)
    /\ ~isUserInteracting /\ ~isScrolling
    /\ AllTimers = {} /\ rafQueue = <<>>

(***************************************************************************)
(* C3 (as stated): after an auto-return, and until another event arrives,  *)
(* exactly one scrollTo command to today's item has been issued.           *)
(***************************************************************************)
C3_ExactlyOnce == returnCmds \in {0, 1}

(***************************************************************************)
(* C3 (amended): the auto-return callback sets SelectedDate to today       *)
(* through onDateSelect(today) and itself issues exactly one animated      *)
(* scrollTo to today's item; the selection change then schedules the 50 ms *)
(* re-centering, so at most two such commands are issued in all.           *)
(***************************************************************************)
C3_AutoReturnCentersAnchor ==
    [][/\ AutoReturnStep =>
            /\ isSameDay(selectedDate', dates[WindowDays + 1])
            /\ ~isSameDay(selectedDate, dates[WindowDays + 1])
            /\ selectCalls' = <<[date |-> today, by |-> "auto"]>>
            /\ scrollCmds' = <<[x |-> AnchorOffset, animated |-> TRUE, by |-> "auto"]>>
            /\ returnCmds' = 1
       /\ returnCmds' <= 2]_vars

\* The auto-return acted and the re-centering it scheduled issued the second command.
C3_Witness ==
    /\ returnCmds = 2
    /\ scrollCmds = <<[x |-> AnchorOffset, animated |-> TRUE, by |-> "center"]>>
    /\ isSameDay(selectedDate, today)

(***************************************************************************)
(* C4: re-arm cancellation: a step that arms an auto-return timer leaves   *)
(* no earlier timer pending, so a superseded timer never fires, and after  *)
(* an auto-return no further auto-return timer is pending.                 *)
(***************************************************************************)
C4_RearmCancelsFirst ==
    [][/\ \A t \in autoTimers' : Arms(t) => autoTimers' = {t}
       /\ AutoReturnStep => autoTimers' = {}]_vars

\* A timer armed while the reference held the id of an earlier arming.
C4_Witness ==
    \E t \in autoTimers : t.id = 2 /\ t.rem = AUTO_SCROLL_DELAY /\ autoRef = 2

(***************************************************************************)
(* C5: at most one auto-return timer is pending, and it is the one          *)
(* autoScrollTimeoutRef refers to.                                         *)
(***************************************************************************)
C5_AtMostOneAutoTimer ==
    /\ Cardinality(autoTimers) <= 1
    /\ \A t \in autoTimers : t.id = autoRef

\* One timer is pending and part of its delay has elapsed.
C5_Witness ==
    \E t \in autoTimers : t.rem < AUTO_SCROLL_DELAY /\ t.rem > 0

(***************************************************************************)
(* C6: arming guard: while an auto-return timer is pending, suppression is *)
(* off, SelectedDate is not today's calendar day, isUserInteracting is     *)
(* false and isScrolling is false.                                         *)
(***************************************************************************)
C6_ArmedImpliesGuard ==
    autoTimers # {} =>
        /\ ~disableAutoScroll
        /\ ~isSameDay(selectedDate, dates[WindowDays + 1])
        /\ ~isUserInteracting
        /\ ~isScrolling

\* A pending timer that is due.
C6_Witness == \E t \in autoTimers : t.rem = 0

(***************************************************************************)
(* C7 (as stated): during the 500 ms after onDragEnd or onMomentumEnd the  *)
(* interaction flag is not cleared and no auto-return timer is armed.      *)
(***************************************************************************)
C7_GraceAfterRelease ==
    [][InGrace({"drag", "momentum"}) /\ mounted =>
            /\ isUserInteracting => isUserInteracting'
            /\ \A t \in autoTimers' : ~Arms(t)]_vars

(***************************************************************************)
(* C8 (as stated): handleDatePress sets SelectedDate to the tapped date    *)
(* and issues the animated scrollTo to its item in the same callback.      *)
(***************************************************************************)
C8_TapCentersSynchronously ==
    [][TapStep =>
            /\ selectedDate' = selectCalls'[1].date
            /\ scrollCmds' =
                   <<[x |-> findIndex(dates, selectedDate') * (80 + 2 * 2),
                      animated |-> TRUE, by |-> "tap"]>>]_vars

(***************************************************************************)
(* C8 (amended): handleDatePress sets SelectedDate to the tapped date in   *)
(* the same callback, whatever was selected, issues no scrollTo itself and *)
(* queues an animation-frame callback; that callback issues the animated   *)
(* scrollTo to the tapped date's item.                                     *)
(***************************************************************************)
C8_TapSelectsThenFrameCenters ==
    [][/\ TapStep =>
            /\ selectedDate' = selectCalls'[1].date
            /\ scrollCmds' = <<>>
            /\ rafQueue' = Append(rafQueue, selectedDate')
       /\ RafStep /\ mounted =>
            scrollCmds' = <<[x |-> findIndex(dates, Head(rafQueue)) * (80 + 2 * 2),
                             animated |-> TRUE, by |-> "raf"]>>]_vars

\* The frame callback of a tap has centered the tapped date.
C8_Witness ==
    /\ scrollCmds # <<>> /\ scrollCmds[1].by = "raf"
    /\ scrollCmds[1].x = findIndex(dates, selectedDate) * (80 + 2 * 2)
    /\ isUserInteracting

(***************************************************************************)
(* C9 (as stated): during the 400 ms after a tap the interaction flag is   *)
(* true and no auto-return timer is pending.                               *)
(***************************************************************************)
C9_TapGraceHolds ==
    InGrace({"tap"}) /\ mounted => isUserInteracting /\ autoTimers = {}

(***************************************************************************)
(* C10: handleScrollBeginDrag leaves isScrolling and isUserInteracting     *)
(* true, no auto-return timer and no 50 ms re-centering pending; while the *)
(* surface is dragged no re-centering is pending or issues a command.      *)
(***************************************************************************)
C10_BeginDragDisarms ==
    [][/\ BeginDragStep =>
            /\ isScrolling' /\ isUserInteracting'
            /\ autoTimers' = {} /\ centerTimers' = {}
       /\ surface' = "drag" =>
            /\ isScrolling' /\ autoTimers' = {} /\ centerTimers' = {}
            /\ \A k \in 1..Len(scrollCmds') : scrollCmds'[k].by # "center"]_vars

\* A drag is on where, but for the drag, both timers would be pending: initialized,
\* suppression off, another day selected.
C10_Witness ==
    /\ surface = "drag" /\ isScrolling /\ isUserInteracting
    /\ autoTimers = {} /\ centerTimers = {}
    /\ hasInitialized /\ ~disableAutoScroll /\ ~isSameDay(selectedDate, today)

(***************************************************************************)
(* C11: first-layout centering is performed exactly once per lifetime: the *)
(* callback of the 150 ms timeout runs only while HasInitialized is false, *)
(* sets it, and issues the one non-animated centering on the current       *)
(* SelectedDate; no other step issues a non-animated command; afterwards   *)
(* no first-layout timeout is pending; and until then, whatever selection  *)
(* changes and gestures arrive, one is pending for the current selection.  *)
(***************************************************************************)
C11_FirstLayoutOnce ==
    [][/\ FirstLayoutStep =>
            /\ ~hasInitialized /\ hasInitialized'
            /\ scrollCmds' =
                   IF findIndex(dates, selectedDate) >= 0
                   THEN <<[x |-> findIndex(dates, selectedDate) * (80 + 2 * 2),
                           animated |-> FALSE, by |-> "init"]>>
                   ELSE <<>>
       /\ (\E k \in 1..Len(scrollCmds') :
               scrollCmds'[k].by = "init" \/ ~scrollCmds'[k].animated) => FirstLayoutStep
       /\ hasInitialized => hasInitialized' /\ initTimers' = {}
       /\ mounted' /\ ~hasInitialized' =>
            initTimers' # {} /\ \A t \in initTimers' : t.sel = selectedDate']_vars

\* The first-layout centering ran after a tap had changed the selection, and
\* centered the tapped date.
C11_Witness ==
    /\ hasInitialized /\ selItem # -1 /\ isUserInteracting
    /\ scrollCmds = <<[x |-> selItem * (80 + 2 * 2), animated |-> FALSE, by |-> "init"]>>

(***************************************************************************)
(* C12 (as stated): after unmount no timer of any kind and no deferred tap *)
(* centering remains pending.                                              *)
(***************************************************************************)
C12_UnmountCancelsAll ==
    ~mounted => AllTimers = {} /\ rafQueue = <<>>

(***************************************************************************)
(* C13: idempotence of an external date change: delivering the same date   *)
(* and suppression flag a second time leaves SelectedDate, the suppression *)
(* flag, the interaction flags, the scheduled centerings and the pending   *)
(* auto-return as the first delivery left them, so both end in the same    *)
(* SelectedDate and scroll target.                                         *)
(***************************************************************************)
C13_ExternalChangeIdempotent ==
    [][RepeatedDelivery =>
            /\ selectedDate' = selectedDate
            /\ disableAutoScroll' = disableAutoScroll
            /\ PendingCenterings' = PendingCenterings
            /\ PendingReturns' = PendingReturns
            /\ UNCHANGED <<isScrolling, isUserInteracting, hasInitialized, dates>>]_vars

\* A delivery of another day, unsuppressed, to an initialized idle component that
\* had a timer armed: it scheduled a re-centering and re-armed the auto-return.
C13_Witness ==
    /\ hostCalls = <<[date |-> selectedDate, suppress |-> FALSE]>>
    /\ ~isSameDay(selectedDate, today)
    /\ centerTimers # {}
    /\ \E t \in autoTimers : t.id = 2

(***************************************************************************)
(* C14: the timeline built at construction has exactly 2W+1 = 15 dates,    *)
(* each one calendar day after the one before it (so strictly increasing,  *)
(* without duplicates), and the anchor date, the device's date at          *)
(* construction, is at index W = 7.                                        *)
(***************************************************************************)
C14_TimelineShape ==
    /\ mounted => dates # <<>>
    /\ dates # <<>> =>
            /\ Len(dates) = 2 * 7 + 1
            /\ \A k \in 1..(Len(dates) - 1) : DayOf(dates[k + 1]) = DayOf(dates[k]) + 1
            /\ dates[7 + 1] = today

\* A timeline built around an anchor late on day -1.
C14_Witness ==
    /\ mounted /\ today = -1
    /\ dates[1] = addDays(-1, -7) /\ dates[15] = addDays(-1, 7)

(***************************************************************************)
(* C15: the calendar-day lookup is the inverse of the construction: for    *)
(* the date at index i of the timeline, taken at any time of day, it       *)
(* returns i; for a date before the first or after the last day of the     *)
(* window it returns not found (-1).                                       *)
(***************************************************************************)
C15_IndexOfInverse ==
    dates # <<>> =>
        /\ \A k \in 1..Len(dates) : \A p \in 0..(DayParts - 1) :
               findIndex(dates, DayOf(dates[k]) * DayParts + p) = k - 1
        /\ \A j \in 1..MaxBeyond : \A p \in 0..(DayParts - 1) :
               /\ findIndex(dates, (DayOf(dates[1]) - j) * DayParts + p) = -1
               /\ findIndex(dates, (DayOf(dates[Len(dates)]) + j) * DayParts + p) = -1

\* The first-layout centering looked up a selected date that is the last day of
\* the window at another time of day than the timeline's entry.
C15_Witness ==
    /\ mounted /\ selectedDate # dates[15] /\ isSameDay(selectedDate, dates[15])
    /\ scrollCmds = <<[x |-> 14 * (80 + 2 * 2), animated |-> FALSE, by |-> "init"]>>

(***************************************************************************)
(* C16 (as stated): the date the auto-return guard tests and the           *)
(* auto-return targets is, in every reachable state, also after midnight   *)
(* passes while the component is mounted, the date the timeline was built  *)
(* around, the one at index W.                                             *)
(***************************************************************************)
C16_AnchorImmutable ==
    \A t \in autoTimers : isSameDay(t.today, dates[WindowDays + 1])

(***************************************************************************)
(* C17: HasInitialized is a one-shot latch: it starts false, only the      *)
(* callback of the first-layout timeout sets it, and once true it stays    *)
(* true.                                                                   *)
(***************************************************************************)
C17_HasInitializedLatch ==
    /\ ~hasInitialized
    /\ [][/\ hasInitialized => hasInitialized'
          /\ ~hasInitialized /\ hasInitialized' => FirstLayoutStep]_vars

\* The latch is still set after a tap, a drag and its release, and the unmount.
C17_Witness ==
    /\ hasInitialized /\ ~mounted
    /\ selItem # -1 /\ surface = "momentum"

(***************************************************************************)
(* C18: a centering request for a date outside the timeline window is      *)
(* ignored: the first-layout callback and the re-centering callback, run   *)
(* for such a date, issue no scroll command and no selection callback and  *)
(* leave the selection, the flags and every other pending timer as they    *)
(* were (the first-layout callback still sets its latch); every command    *)
(* that is issued targets an item of the timeline.                         *)
(***************************************************************************)
C18_NotFoundIgnored ==
    [][/\ (/\ CenterTimerFire
           /\ \A t \in centerTimers : t.rem = 0 => OutsideWindow(t.sel)) =>
               /\ scrollCmds' = <<>> /\ selectCalls' = <<>>
               /\ UNCHANGED <<mounted, dates, selectedDate, selItem, disableAutoScroll,
                              isScrolling, isUserInteracting, hasInitialized, autoRef,
                              autoTimers, initTimers, graceTimers, rafQueue>>
       /\ (/\ InitTimerFire
           /\ \A t \in initTimers : t.rem = 0 => OutsideWindow(t.sel)) =>
               /\ scrollCmds' = <<>> /\ selectCalls' = <<>>
               /\ UNCHANGED <<mounted, dates, selectedDate, selItem, disableAutoScroll,
                              isScrolling, isUserInteracting, autoRef, autoTimers,
                              centerTimers, graceTimers, rafQueue>>
       /\ \A k \in 1..Len(scrollCmds') :
               \E i \in 0..(Len(dates) - 1) : scrollCmds'[k].x = i * (80 + 2 * 2)]_vars

\* Mounted with a selected date before the window: the first-layout callback ran
\* for it 150 ms after the mount and issued nothing; the auto-return stays armed.
C18_Witness ==
    /\ mounted /\ hasInitialized /\ OutsideWindow(selectedDate)
    /\ scrollCmds = <<>> /\ initTimers = {}
    /\ \E t \in autoTimers :
           t.sel = selectedDate /\ t.rem = AUTO_SCROLL_DELAY - INIT_DELAY

(***************************************************************************)
(* C19: every scroll command the component issues centers a date that is   *)
(* on day i of the timeline, and its offset is exactly i x (80 + 2 x 2) =  *)
(* i x 84, with no screen-width or padding term.                           *)
(***************************************************************************)
C19_OffsetIsIndexTimesWidth ==
    [][\A k \in 1..Len(scrollCmds') :
           LET i == DayOf(CenteredDate(k)) - DayOf(dates[1])
           IN  /\ i \in 0..(Len(dates) - 1)
               /\ scrollCmds'[k].x = i * 84]_vars

\* The re-centering after an external change to yesterday scrolled to 6 x 84.
C19_Witness ==
    /\ scrollCmds = <<[x |-> 504, animated |-> TRUE, by |-> "center"]>>
    /\ selItem = -1 /\ returnCmds = 0

(***************************************************************************)
(* C20 (as stated): the host supplies suppressAutoReturn = true when the   *)
(* selected date was set through a route parameter, and false when the     *)
(* user selected a date by tapping an item with no route parameter present.*)
(***************************************************************************)
C20_SuppressOnlyOnNavigation ==
    [][/\ routeParam' # NoParam /\ routeParam' # routeParam => disableAutoScroll'
       /\ TapStep /\ routeParam = NoParam => ~disableAutoScroll']_vars

(***************************************************************************)
(* C21: centering-on-change rule: a 50 ms re-centering is pending only     *)
(* while HasInitialized is true, isScrolling is false and the interaction  *)
(* flag is false, and it is for the current SelectedDate; a step that      *)
(* changes SelectedDate on a mounted component leaves one pending (with    *)
(* its full delay) exactly when these guards hold; and when the            *)
(* re-centering executes, isScrolling and the interaction flag are false   *)
(* at that moment and the animated command centers the current             *)
(* SelectedDate.                                                           *)
(***************************************************************************)
C21_CenteringOnChangeRule ==
    [][/\ \A t \in centerTimers' :
               /\ mounted' /\ hasInitialized'
               /\ ~isScrolling' /\ ~isUserInteracting'
               /\ t.sel = selectedDate'
       /\ selectedDate' # selectedDate /\ mounted' =>
               IF hasInitialized' /\ ~isScrolling' /\ ~isUserInteracting'
               THEN \E t \in centerTimers' :
                        centerTimers' = {t} /\ t.rem = CENTER_DELAY
               ELSE centerTimers' = {}
       /\ RecenterStep =>
               /\ ~isScrolling /\ ~isUserInteracting
               /\ ~isScrolling' /\ ~isUserInteracting'
               /\ selectedDate' = selectedDate
               /\ scrollCmds' =
                      <<[x |-> (DayOf(selectedDate) - DayOf(dates[1])) * (80 + 2 * 2),
                         animated |-> TRUE, by |-> "center"]>>]_vars

\* The re-centering that the expiry of a tap's grace period scheduled has
\* centered the tapped date.
C21_Witness ==
    /\ selItem # -1 /\ ~isUserInteracting /\ ~isScrolling
    /\ scrollCmds = <<[x |-> selItem * (80 + 2 * 2), animated |-> TRUE, by |-> "center"]>>

(***************************************************************************)
(* C22: deferred re-evaluation: when the host changes SelectedDate while a *)
(* drag is in progress or the interaction flag is set, so that the         *)
(* centering is skipped, and from some point on the drag has ended and no  *)
(* further event arrives (only time passes and deferred callbacks run),    *)
(* then an animated command centering the current SelectedDate is          *)
(* eventually issued, unless the component was unmounted or the selection  *)
(* left the window meanwhile.                                              *)
(***************************************************************************)
C22_DeferredCentering ==
    (<>[][QuietNext]_vars /\ <>[](surface # "drag")) =>
        (CenteringSkipped ~>
            (CenteredSelection \/ ~mounted \/ OutsideWindow(selectedDate)))

\* The host delivered yesterday while the surface was dragged.
C22_Witness ==
    /\ CenteringSkipped /\ surface = "drag" /\ isScrolling
    /\ selectedDate = addDays(0, -1)

(***************************************************************************)
(* C23: fresh state in callbacks: the values a pending auto-return timer   *)
(* or 50 ms centering timer captured (suppression, interaction flag,       *)
(* phase, selected date, today) are the component's current ones, and the  *)
(* component is mounted, so its callback tests the current state when it   *)
(* runs; a callback that runs while a guard holds in the current state     *)
(* issues no command and no selection.                                     *)
(***************************************************************************)
C23_CallbacksSeeCurrentState ==
    /\ \A t \in autoTimers :
           /\ mounted
           /\ t.dis = disableAutoScroll /\ t.ui = isUserInteracting
           /\ t.scr = isScrolling /\ t.sel = selectedDate /\ t.today = today
    /\ \A t \in centerTimers :
           /\ mounted
           /\ t.ui = isUserInteracting /\ t.scr = isScrolling /\ t.sel = selectedDate
    /\ (scrollCmds # <<>> /\ scrollCmds[1].by = "center") =>
           ~isUserInteracting /\ ~isScrolling
    /\ (selectCalls # <<>> /\ selectCalls[1].by = "auto") =>
           ~isUserInteracting /\ ~isScrolling /\ ~disableAutoScroll /\ mounted

\* The auto-return callback has run and the 50 ms centering of the date it
\* selected is pending.
C23_Witness ==
    /\ selectCalls # <<>> /\ selectCalls[1].by = "auto"
    /\ \E t \in centerTimers : t.rem = CENTER_DELAY /\ t.sel = selectedDate

(***************************************************************************)
(* C24: the 150 ms first-layout delay is a one-shot: it is scheduled once, *)
(* at mount, and no step schedules it again: a pending first-layout timer  *)
(* is never replaced by one with more time to run, and none is scheduled   *)
(* once there is none.                                                     *)
(***************************************************************************)
C24_FirstLayoutOneShot ==
    [][/\ initTimers = {} => initTimers' = {}
       /\ \A t \in initTimers, u \in initTimers' : u.rem <= t.rem]_vars

(***************************************************************************)
(* C25: at most one pending centering-delay: never two 50 ms re-centering  *)
(* timers, never two 150 ms first-layout timers, and never a 50 ms timer   *)
(* together with a 150 ms one.                                             *)
(***************************************************************************)
C25_OneCenteringDelay ==
    Cardinality(centerTimers \cup initTimers) <= 1

\* The host changed the selection while a 50 ms centering was on its way: the
\* one that is pending is the new one.
C25_Witness ==
    /\ hostCalls # <<>> /\ hasInitialized
    /\ scrollCmds = <<>>
    /\ \E t \in centerTimers :
           centerTimers = {t} /\ t.rem = CENTER_DELAY /\ t.sel = hostCalls[1].date

(***************************************************************************)
(* C26: the phase flag isScrolling is written only by the handlers of the  *)
(* scroll surface's events: it becomes true in the step that begins a drag *)
(* and false in the step that ends one (a momentum end finds it false      *)
(* already); every other step, of a timer, a tap or the host, keeps it.    *)
(***************************************************************************)
C26_PhaseFrame ==
    [][/\ isScrolling' # isScrolling =>
              IF isScrolling'
              THEN BeginDragStep
              ELSE surface = "drag" /\ surface' # "drag"
       /\ BeginDragStep => isScrolling'
       /\ surface' # surface /\ surface' # "drag" => ~isScrolling']_vars

\* A grace-release timeout has fired during a drag and the phase is kept.
C26_Witness ==
    /\ mounted /\ surface = "drag"
    /\ isScrolling /\ ~isUserInteracting

(***************************************************************************)
(* C27: no scheduled action fights a gesture: while a drag is in progress  *)
(* (after the drag began, before it ended) no callback issues a scroll     *)
(* command, be it the first-layout centering, the 50 ms re-centering, the  *)
(* deferred tap centering or the auto-return.  The step that begins a drag *)
(* issues none, so a command seen during a drag was issued during it.      *)
(***************************************************************************)
C27_NoCommandDuringDrag ==
    surface = "drag" => scrollCmds = <<>>

(***************************************************************************)
(* C28: the interaction flag covers every drag: in every reachable state   *)
(* isScrolling implies isUserInteracting, however taps, drags, momentum    *)
(* ends and the expiries of their grace-release timeouts interleave.       *)
(***************************************************************************)
C28_InteractionCoversDrag ==
    isScrolling => isUserInteracting

(***************************************************************************)
(* C29: with MoodTrackerScreen as the host, browsing leads home: when the  *)
(* user has tapped a date other than today with no route parameter, and    *)
(* from some point on no further event arrives (only time passes and       *)
(* deferred callbacks run), SelectedDate eventually is today again.        *)
(***************************************************************************)
C29_BrowsingLeadsHome ==
    <>[][QuietNext]_vars =>
        ((/\ selectCalls # <<>> /\ selectCalls[1].by = "tap"
          /\ mounted /\ routeParam = NoParam
          /\ ~isSameDay(selectedDate, today))
            ~> (isSameDay(selectedDate, today) \/ ~mounted))

(***************************************************************************)
(* C30: the auto-return countdown is restarted only by a change of         *)
(* SelectedDate, of the interaction flag, of the phase or of the           *)
(* suppression flag: a step that arms a timer with the full delay changes  *)
(* one of them (or delivers a selection), and a render of the host that    *)
(* changes none of them leaves the armed timer and its remaining time as   *)
(* they are.                                                               *)
(***************************************************************************)
C30_CountdownFrame ==
    [][/\ (/\ \E u \in autoTimers' : u.rem = AUTO_SCROLL_DELAY
           /\ \A t \in autoTimers : t.rem < AUTO_SCROLL_DELAY) =>
              \/ selectedDate' # selectedDate
              \/ hostCalls' # <<>> \/ selectCalls' # <<>>
              \/ isUserInteracting' # isUserInteracting
              \/ isScrolling' # isScrolling
              \/ disableAutoScroll' # disableAutoScroll
       /\ HostRerender => {u.rem : u \in autoTimers'} = {t.rem : t \in autoTimers}]_vars

(***************************************************************************)
(* C31: drag gestures never change the selection: the steps that begin or  *)
(* end a drag, end a momentum scroll or run a grace-release timeout leave  *)
(* SelectedDate as it is and call onDateSelect not at all; SelectedDate    *)
(* changes only in a tap, a delivery of the host or the auto-return.       *)
(***************************************************************************)
C31_DragsKeepSelection ==
    [][/\ (surface' # surface \/ Cardinality(graceTimers') < Cardinality(graceTimers)) =>
              /\ selectedDate' = selectedDate /\ selItem' = selItem
              /\ selectCalls' = <<>>
       /\ (selectedDate' # selectedDate \/ selItem' # selItem) =>
              TapStep \/ AutoReturnStep \/ hostCalls' # <<>>]_vars

\* A drag of the timeline has just ended in a momentum scroll with the tapped
\* item before today still selected.
C31_Witness ==
    /\ surface = "momentum" /\ selItem = WindowDays - 1
    /\ selectedDate = dates[WindowDays]
    /\ \E t \in graceTimers : t.kind = "drag" /\ t.rem = DRAG_GRACE

(***************************************************************************)
(* C32: quiescence: when from some point on the surface is not dragged and *)
(* no further event arrives (only time passes and deferred callbacks run), *)
(* the mounted component comes to rest for good: the interaction flag and  *)
(* the phase are false, no timer and no animation frame is pending, and    *)
(* SelectedDate is today or the auto-return is suppressed.                 *)
(***************************************************************************)
C32_Quiescence ==
    (<>[][QuietNext]_vars /\ <>[](surface # "drag")) =>
        <>[](mounted =>
                /\ ~isUserInteracting /\ ~isScrolling
                /\ AllTimers = {} /\ rafQueue = <<>>
                /\ isSameDay(selectedDate, today) \/ disableAutoScroll)

\* The auto-return has brought the selection back to today and everything
\* it started has run.
C32_Witness ==
    /\ mounted /\ returnCmds > 0 /\ ~disableAutoScroll
    /\ isSameDay(selectedDate, today) /\ selItem = -1
    /\ ~isUserInteracting /\ ~isScrolling
    /\ AllTimers = {} /\ rafQueue = <<>>

(***************************************************************************)
(* C33: saveMoodEntry is an upsert keyed by date: the list a save stores   *)
(* holds at most one entry per date and is in descending date order, and   *)
(* a save that no other call overlapped and whose date had an entry in the *)
(* store keeps that entry's id.                                            *)
(***************************************************************************)
C33_UpsertByDate ==
    [][\A c \in storageCalls :
          SaveWrites(c) =>
              /\ OnePerDate(entries') /\ DescendingDates(entries')
              /\ getMoodEntryByDate(entries', c.date) # <<>>
              /\ (~c.overlapped /\ getMoodEntryByDate(entries, c.date) # <<>>) =>
                     getMoodEntryByDate(entries', c.date)[1].id =
                         getMoodEntryByDate(entries, c.date)[1].id]_vars

(***************************************************************************)
(* C34: saveMoodEntry preserves notes when none are provided: a save that  *)
(* no other call overlapped, for a date that has an entry in the store,    *)
(* leaves that entry's notes as they are when its notes argument is        *)
(* undefined, and replaces them by the argument when it is a string, the   *)
(* empty one included.                                                     *)
(***************************************************************************)
C34_NotesPreserved ==
    [][\A c \in storageCalls :
          (/\ SaveWrites(c) /\ ~c.overlapped
           /\ getMoodEntryByDate(entries, c.date) # <<>>) =>
              getMoodEntryByDate(entries', c.date)[1].notes =
                  IF c.notes = <<>>
                  THEN getMoodEntryByDate(entries, c.date)[1].notes
                  ELSE c.notes]_vars

(***************************************************************************)
(* C35: no lost update in the storage: a save or a delete whose read       *)
(* succeeded changes the entry of its own date or id only, also when       *)
(* another call overlaps it: the entries of the other dates that are in    *)
(* the store when it writes are in the store after it.                     *)
(***************************************************************************)
C35_NoLostUpdate ==
    [][\A c \in storageCalls :
          /\ (SaveWrites(c) /\ c.readOk) =>
                 \A k \in 1..Len(entries) :
                     entries[k].date # c.date =>
                         getMoodEntryByDate(entries', entries[k].date) = <<entries[k]>>
          /\ (DeleteWrites(c) /\ c.readOk) =>
                 \A k \in 1..Len(entries) :
                     entries[k].id # c.id =>
                         getMoodEntryByDate(entries', entries[k].date) = <<entries[k]>>]_vars

(***************************************************************************)
(* C36: the loaded entry matches the selection: once no load and no save   *)
(* is in flight, the entry the screen holds in existingEntry is an entry   *)
(* of the selected date, never the entry of another date, in whatever      *)
(* order the loads started by the changes of SelectedDate return.          *)
(***************************************************************************)
C36_LoadedMatchesSelection ==
    (storageCalls = {} /\ existingEntry # <<>>) =>
        existingEntry[1].date = format(selectedDate)

(***************************************************************************)
(* C37: viewing the journal does not change the rating: a save made by     *)
(* Save or Keep Original / Skip of a journal modal that handleJournalView  *)
(* opened leaves the stored rating of its date as it is (the save read the *)
(* store and no other call overlapped it).                                 *)
(***************************************************************************)
C37_JournalKeepsRating ==
    [][\A c \in storageCalls :
          (/\ SaveWrites(c) /\ c.owner = "view"
           /\ c.readOk /\ ~c.overlapped
           /\ getMoodEntryByDate(entries, c.date) # <<>>) =>
              getMoodEntryByDate(entries', c.date)[1].rating =
                  getMoodEntryByDate(entries, c.date)[1].rating]_vars

(***************************************************************************)
(* C38: the emoji save is guarded and always released: at most one save    *)
(* started by handleEmojiPress is in progress, a press made while one is   *)
(* in progress starts no call, isSaving is true exactly while such a save  *)
(* is in progress, so it is false again once the save completed or failed, *)
(* and a failed save does not show the journal modal.                      *)
(***************************************************************************)
C38_EmojiSaveGuarded ==
    [][/\ Cardinality(EmojiSaves') <= 1
       /\ isSaving' <=> EmojiSaves' # {}
       /\ (handleEmojiPress /\ isSaving) => storageCalls' = storageCalls
       /\ \A c \in EmojiSaves :
              /\ SaveWrites(c) => ~isSaving'
              /\ SaveFails(c) => ~isSaving' /\ showJournalModal' = showJournalModal]_vars

\* A save started by handleEmojiPress has read the list and is about to
\* complete or fail, with isSaving set.
C38_Witness ==
    /\ isSaving
    /\ \E c \in EmojiSaves : c.pc = "write"
    /\ ~showJournalModal

====
